---------------------------- MODULE Spec2Model ----------------------------
(***************************************************************************)
(* A model of the Salsa20 stream cipher of src/salsa20.cpp,                *)
(* src/salsa20.hpp and of the driver src/mainprog.cpp.                     *)
(*                                                                         *)
(* Numbers.  TLC's integers are 32-bit signed, so a uint32_t is modelled   *)
(* as the pair <<hi, lo>> of its two 16-bit halves and a uint64_t as the   *)
(* pair <<hi, lo>> of its two 32-bit words.  Every operation on them keeps *)
(* the width of the C++ type (additions wrap modulo 2^32, shifts drop the  *)
(* bits that leave the word).  A byte is a number in 0..255, a string a    *)
(* sequence of character codes.                                            *)
(***************************************************************************)
EXTENDS Integers, Sequences, FiniteSets, TLC

VARIABLES
  NDEBUG,      \* whether the build defines NDEBUG (assert compiles to nothing)
  alive,       \* the process runs: no failed assert, no crash so far
  constructed, \* constructed[i]: the constructor of instance i has returned
  matrixOf,     \* matrixOf[i]: the member _matrix of instance i
  streamPosOf, \* streamPosOf[i]: the member _stream_pos of instance i
  block,       \* the static buffer block of encryptBytes
  ctor,        \* ctor[i]: how instance i was constructed (history)
  hist,        \* hist[i]: the calls on instance i so far (history)
  own,         \* own[i]: the key stream block instance i generated last (history)
  last,        \* the last call: what, on which instance, how it ended (history)
  nops,        \* the number of calls made so far on constructed instances
  tv,          \* the last application of a function of the round section
  prog         \* the run of the command-line program: where main is, what it has done

vars == << NDEBUG, alive, constructed, matrixOf, streamPosOf, block,
           ctor, hist, own, last, nops, tv, prog >>

----------------------------------------------------------------------------
(* 16-bit and 32-bit arithmetic *)

Pow2(n) == 2 ^ n

Half == Pow2(16)

\* the bitwise operators of C++ on 4-bit digits, tabulated: XorNib[a + 1][b + 1] is a ^ b
XorNib ==
  << << 0,  1,  2,  3,  4,  5,  6,  7,  8,  9, 10, 11, 12, 13, 14, 15>>,
     << 1,  0,  3,  2,  5,  4,  7,  6,  9,  8, 11, 10, 13, 12, 15, 14>>,
     << 2,  3,  0,  1,  6,  7,  4,  5, 10, 11,  8,  9, 14, 15, 12, 13>>,
     << 3,  2,  1,  0,  7,  6,  5,  4, 11, 10,  9,  8, 15, 14, 13, 12>>,
     << 4,  5,  6,  7,  0,  1,  2,  3, 12, 13, 14, 15,  8,  9, 10, 11>>,
     << 5,  4,  7,  6,  1,  0,  3,  2, 13, 12, 15, 14,  9,  8, 11, 10>>,
     << 6,  7,  4,  5,  2,  3,  0,  1, 14, 15, 12, 13, 10, 11,  8,  9>>,
     << 7,  6,  5,  4,  3,  2,  1,  0, 15, 14, 13, 12, 11, 10,  9,  8>>,
     << 8,  9, 10, 11, 12, 13, 14, 15,  0,  1,  2,  3,  4,  5,  6,  7>>,
     << 9,  8, 11, 10, 13, 12, 15, 14,  1,  0,  3,  2,  5,  4,  7,  6>>,
     <<10, 11,  8,  9, 14, 15, 12, 13,  2,  3,  0,  1,  6,  7,  4,  5>>,
     <<11, 10,  9,  8, 15, 14, 13, 12,  3,  2,  1,  0,  7,  6,  5,  4>>,
     <<12, 13, 14, 15,  8,  9, 10, 11,  4,  5,  6,  7,  0,  1,  2,  3>>,
     <<13, 12, 15, 14,  9,  8, 11, 10,  5,  4,  7,  6,  1,  0,  3,  2>>,
     <<14, 15, 12, 13, 10, 11,  8,  9,  6,  7,  4,  5,  2,  3,  0,  1>>,
     <<15, 14, 13, 12, 11, 10,  9,  8,  7,  6,  5,  4,  3,  2,  1,  0>> >>

\* OrNib[a + 1][b + 1] is a | b
OrNib ==
  << << 0,  1,  2,  3,  4,  5,  6,  7,  8,  9, 10, 11, 12, 13, 14, 15>>,
     << 1,  1,  3,  3,  5,  5,  7,  7,  9,  9, 11, 11, 13, 13, 15, 15>>,
     << 2,  3,  2,  3,  6,  7,  6,  7, 10, 11, 10, 11, 14, 15, 14, 15>>,
     << 3,  3,  3,  3,  7,  7,  7,  7, 11, 11, 11, 11, 15, 15, 15, 15>>,
     << 4,  5,  6,  7,  4,  5,  6,  7, 12, 13, 14, 15, 12, 13, 14, 15>>,
     << 5,  5,  7,  7,  5,  5,  7,  7, 13, 13, 15, 15, 13, 13, 15, 15>>,
     << 6,  7,  6,  7,  6,  7,  6,  7, 14, 15, 14, 15, 14, 15, 14, 15>>,
     << 7,  7,  7,  7,  7,  7,  7,  7, 15, 15, 15, 15, 15, 15, 15, 15>>,
     << 8,  9, 10, 11, 12, 13, 14, 15,  8,  9, 10, 11, 12, 13, 14, 15>>,
     << 9,  9, 11, 11, 13, 13, 15, 15,  9,  9, 11, 11, 13, 13, 15, 15>>,
     <<10, 11, 10, 11, 14, 15, 14, 15, 10, 11, 10, 11, 14, 15, 14, 15>>,
     <<11, 11, 11, 11, 15, 15, 15, 15, 11, 11, 11, 11, 15, 15, 15, 15>>,
     <<12, 13, 14, 15, 12, 13, 14, 15, 12, 13, 14, 15, 12, 13, 14, 15>>,
     <<13, 13, 15, 15, 13, 13, 15, 15, 13, 13, 15, 15, 13, 13, 15, 15>>,
     <<14, 15, 14, 15, 14, 15, 14, 15, 14, 15, 14, 15, 14, 15, 14, 15>>,
     <<15, 15, 15, 15, 15, 15, 15, 15, 15, 15, 15, 15, 15, 15, 15, 15>> >>

\* AndNib[a + 1][b + 1] is a & b
AndNib ==
  << << 0,  0,  0,  0,  0,  0,  0,  0,  0,  0,  0,  0,  0,  0,  0,  0>>,
     << 0,  1,  0,  1,  0,  1,  0,  1,  0,  1,  0,  1,  0,  1,  0,  1>>,
     << 0,  0,  2,  2,  0,  0,  2,  2,  0,  0,  2,  2,  0,  0,  2,  2>>,
     << 0,  1,  2,  3,  0,  1,  2,  3,  0,  1,  2,  3,  0,  1,  2,  3>>,
     << 0,  0,  0,  0,  4,  4,  4,  4,  0,  0,  0,  0,  4,  4,  4,  4>>,
     << 0,  1,  0,  1,  4,  5,  4,  5,  0,  1,  0,  1,  4,  5,  4,  5>>,
     << 0,  0,  2,  2,  4,  4,  6,  6,  0,  0,  2,  2,  4,  4,  6,  6>>,
     << 0,  1,  2,  3,  4,  5,  6,  7,  0,  1,  2,  3,  4,  5,  6,  7>>,
     << 0,  0,  0,  0,  0,  0,  0,  0,  8,  8,  8,  8,  8,  8,  8,  8>>,
     << 0,  1,  0,  1,  0,  1,  0,  1,  8,  9,  8,  9,  8,  9,  8,  9>>,
     << 0,  0,  2,  2,  0,  0,  2,  2,  8,  8, 10, 10,  8,  8, 10, 10>>,
     << 0,  1,  2,  3,  0,  1,  2,  3,  8,  9, 10, 11,  8,  9, 10, 11>>,
     << 0,  0,  0,  0,  4,  4,  4,  4,  8,  8,  8,  8, 12, 12, 12, 12>>,
     << 0,  1,  0,  1,  4,  5,  4,  5,  8,  9,  8,  9, 12, 13, 12, 13>>,
     << 0,  0,  2,  2,  4,  4,  6,  6,  8,  8, 10, 10, 12, 12, 14, 14>>,
     << 0,  1,  2,  3,  4,  5,  6,  7,  8,  9, 10, 11, 12, 13, 14, 15>> >>

\* a bitwise operator on two 16-bit numbers, hex digit by hex digit from its
\* table T
Bitwise(T, x, y) ==
    T[(x % 16) + 1][(y % 16) + 1]
  + 16 * T[((x \div 16) % 16) + 1][((y \div 16) % 16) + 1]
  + 256 * T[((x \div 256) % 16) + 1][((y \div 256) % 16) + 1]
  + 4096 * T[(x \div 4096) + 1][(y \div 4096) + 1]

Xor16(x, y) == Bitwise(XorNib, x, y)

Or16(x, y) == Bitwise(OrNib, x, y)

And16(x, y) == Bitwise(AndNib, x, y)

\* a ^ b on uint32_t
Xor32(a, b) == << Xor16(a[1], b[1]), Xor16(a[2], b[2]) >>

\* a | b on uint32_t
Or32(a, b) == << Or16(a[1], b[1]), Or16(a[2], b[2]) >>

\* a & b on uint32_t
And32(a, b) == << And16(a[1], b[1]), And16(a[2], b[2]) >>

\* a + b on uint32_t: the carry out of bit 31 is dropped
Add32(a, b) == << (a[1] + b[1] + ((a[2] + b[2]) \div Half)) % Half, (a[2] + b[2]) % Half >>

\* val << n on uint32_t, 0 <= n <= 32 (the bits shifted out are dropped)
Shl32(val, n) ==
  IF n = 0 THEN val
  ELSE IF n < 16
       THEN << ((val[1] * Pow2(n)) % Half) + (val[2] \div Pow2(16 - n)),
               (val[2] * Pow2(n)) % Half >>
       ELSE IF n < 32 THEN << (val[2] * Pow2(n - 16)) % Half, 0 >>
            ELSE << 0, 0 >>

\* val >> n on uint32_t, 0 <= n <= 32
Shr32(val, n) ==
  IF n = 0 THEN val
  ELSE IF n < 16
       THEN << val[1] \div Pow2(n),
               ((val[1] % Pow2(n)) * Pow2(16 - n)) + (val[2] \div Pow2(n)) >>
       ELSE IF n < 32 THEN << 0, val[1] \div Pow2(n - 16) >>
            ELSE << 0, 0 >>

Zero32 == << 0, 0 >>

One32 == << 0, 1 >>

\* the truth value of a uint32_t (!x is x = 0)
IsZero32(x) == x = Zero32

----------------------------------------------------------------------------
(* Word/byte codec, src/salsa20.cpp:82-96 *)

\* bytes[0] + (bytes[1] << 8) + (bytes[2] << 16) + (bytes[3] << 24); bytes is a
\* sequence of four bytes, bytes[1] of the model being bytes[0] of the code
littleEndianWordFromBytes(bytes) ==
  << bytes[4] * 256 + bytes[3], bytes[2] * 256 + bytes[1] >>

\* bytes[0] = word; bytes[1] = word >> 8; bytes[2] = word >> 16; bytes[3] = word >> 24,
\* each assignment keeping the low eight bits
bytesFromLittleEndianWord(word) ==
  << Shr32(word, 0)[2] % 256, Shr32(word, 8)[2] % 256,
     Shr32(word, 16)[2] % 256, Shr32(word, 24)[2] % 256 >>

----------------------------------------------------------------------------
(* The round function, src/salsa20.cpp:183-215.  A uint32_t[4][4] is a      *)
(* tuple of four rows of four words; Cell(state, row, col) is the code's     *)
(* state[row][col], rows and columns numbered from 0 as in the code.         *)

Idx == 0..3

Cell(state, row, col) == state[row + 1][col + 1]

\* val << bits alone: the bits that leave the word are lost
rotateShiftOnly(val, bits) == Shl32(val, bits)

\* (val << bits) | (val >> (32 - bits))
rotate(val, bits) == Or32(Shl32(val, bits), Shr32(val, 32 - bits))

\* one statement of quarterRound: x ^= rotate((y+z), bits)
XorRotate(x, y, z, bits) == Xor32(x, rotate(Add32(y, z), bits))

\* The four statements of quarterRound, each an update in place of one of the
\* four references: q is <<a, b, c, d>> as the statement finds them.
quarterRoundB(q) == [q EXCEPT ![2] = XorRotate(@, q[1], q[4], 7)]

quarterRoundC(q) == [q EXCEPT ![3] = XorRotate(@, q[2], q[1], 9)]

quarterRoundD(q) == [q EXCEPT ![4] = XorRotate(@, q[3], q[2], 13)]

quarterRoundA(q) == [q EXCEPT ![1] = XorRotate(@, q[4], q[3], 18)]

\* the four cells after the four statements, as <<a, b, c, d>>
quarterRound(a, b, c, d) ==
  quarterRoundA(quarterRoundD(quarterRoundC(quarterRoundB(<< a, b, c, d >>))))

\* the 4x4 array whose cell [row][col] is f[row][col]
Array4x4(f) ==
  << << f[0][0], f[0][1], f[0][2], f[0][3] >>,
     << f[1][0], f[1][1], f[1][2], f[1][3] >>,
     << f[2][0], f[2][1], f[2][2], f[2][3] >>,
     << f[3][0], f[3][1], f[3][2], f[3][3] >> >>

\* Each round hands four disjoint groups of four cells, by reference, to
\* quarterRound.  q0..q3 are the results of the four calls in the order of the
\* code, and each cell of the array is the cell of the call that was given it.
RowsAfterRowRound(q0, q1, q2, q3) ==
  << << q0[1], q0[2], q0[3], q0[4] >>,
     << q1[4], q1[1], q1[2], q1[3] >>,
     << q2[3], q2[4], q2[1], q2[2] >>,
     << q3[2], q3[3], q3[4], q3[1] >> >>

rowRound(state) ==
  RowsAfterRowRound(
    quarterRound(Cell(state,0,0), Cell(state,0,1), Cell(state,0,2), Cell(state,0,3)),
    quarterRound(Cell(state,1,1), Cell(state,1,2), Cell(state,1,3), Cell(state,1,0)),
    quarterRound(Cell(state,2,2), Cell(state,2,3), Cell(state,2,0), Cell(state,2,1)),
    quarterRound(Cell(state,3,3), Cell(state,3,0), Cell(state,3,1), Cell(state,3,2)))

RowsAfterColumnRound(q0, q1, q2, q3) ==
  << << q0[1], q1[4], q2[3], q3[2] >>,
     << q0[2], q1[1], q2[4], q3[3] >>,
     << q0[3], q1[2], q2[1], q3[4] >>,
     << q0[4], q1[3], q2[2], q3[1] >> >>

columnRound(state) ==
  RowsAfterColumnRound(
    quarterRound(Cell(state,0,0), Cell(state,1,0), Cell(state,2,0), Cell(state,3,0)),
    quarterRound(Cell(state,1,1), Cell(state,2,1), Cell(state,3,1), Cell(state,0,1)),
    quarterRound(Cell(state,2,2), Cell(state,3,2), Cell(state,0,2), Cell(state,1,2)),
    quarterRound(Cell(state,3,3), Cell(state,0,3), Cell(state,1,3), Cell(state,2,3)))

\* columnRound(state); rowRound(state);
\* (the singleton set makes TLC finish the first call before it starts the second)
doubleRound(state) ==
  CHOOSE done \in { rowRound(next) : next \in { columnRound(state) } } : TRUE

----------------------------------------------------------------------------
(* keyStreamBlock, src/salsa20.cpp:218-251 *)

\* for (uint8_t i=0; i<20; i+=2) doubleRound(state);  RoundsLoop(state, i, end)
\* is the passes of the loop with i, i+2, ... below end, in order: the first
\* half of them, then the rest (the singleton set makes TLC finish the first
\* half before it starts the second, and halving keeps its evaluation shallow)
RECURSIVE RoundsLoop(_, _, _)
RoundsLoop(state, i, end) ==
  IF ~(i < end) THEN state
  ELSE IF ~(i + 2 < end) THEN doubleRound(state)
  ELSE CHOOSE done \in { RoundsLoop(half, i + 2 * ((end - i + 2) \div 4), end) :
                         half \in { RoundsLoop(state, i, i + 2 * ((end - i + 2) \div 4)) } } : TRUE

\* state[row][col] += _matrix[row][col] for every cell
AddMatrix(state, matrix) ==
  Array4x4([row \in Idx |-> [col \in Idx |->
      Add32(Cell(state, row, col), Cell(matrix, row, col))]])

\* bytesFromLittleEndianWord(state[row][col], out_block+i), i += 4, row by row
SerializeRow(state, row) ==
  (bytesFromLittleEndianWord(Cell(state, row, 0)) \o bytesFromLittleEndianWord(Cell(state, row, 1)))
  \o (bytesFromLittleEndianWord(Cell(state, row, 2)) \o bytesFromLittleEndianWord(Cell(state, row, 3)))

Serialize(state) ==
  (SerializeRow(state, 0) \o SerializeRow(state, 1))
  \o (SerializeRow(state, 2) \o SerializeRow(state, 3))

\* m with cell [row][col] set to w
SetCell(m, row, col, w) ==
  Array4x4([r \in Idx |-> [c \in Idx |->
      IF r = row /\ c = col THEN w ELSE Cell(m, r, c)]])

\* state[1][2]++; if (!state[1][2]) state[1][3]++;  on the local copy
BumpLocal(state) ==
  IF IsZero32(Add32(Cell(state, 1, 2), One32))
  THEN SetCell(SetCell(state, 1, 2, Zero32), 1, 3, Add32(Cell(state, 1, 3), One32))
  ELSE SetCell(state, 1, 2, Add32(Cell(state, 1, 2), One32))

\* keyStreamBlock without a working copy: the rounds and the addition done in
\* _matrix itself, which the call then leaves changed
keyStreamBlockEndInPlace(state, matrix) ==
  [ out_block |-> Serialize(state), state |-> BumpLocal(state), matrix |-> state ]

\* One call on an instance whose _matrix is matrix: the bytes written to
\* out_block, the local array state as the call leaves it (it is dropped on
\* return) and _matrix after the call (no statement of the body assigns to it).
\* keyStreamBlockEnd is the call from the serialisation on, state being the
\* local array after the addition.
keyStreamBlockEnd(state, matrix) ==
  [ out_block |-> Serialize(state), state |-> BumpLocal(state), matrix |-> matrix ]

\* the copy of _matrix goes through the rounds, then _matrix is added to it
keyStreamBlock(matrix) ==
  CHOOSE done \in { keyStreamBlockEnd(AddMatrix(state, matrix), matrix) :
                    state \in { RoundsLoop(matrix, 0, 20) } } : TRUE

----------------------------------------------------------------------------
(* Strings: a std::string is the sequence of its character codes. *)

\* ::isxdigit
isxdigit(c) == c \in (48..57) \cup (65..70) \cup (97..102)

\* ::isspace, which stoul skips at the start
isspace(c) == c \in (9..13) \cup {32}

\* the value of a hex digit
HexVal(c) == IF c \in 48..57 THEN c - 48 ELSE IF c \in 65..70 THEN c - 55 ELSE c - 87

\* std::all_of(hex_str.begin(), hex_str.end(), ::isxdigit)
AllHex(hex_str) == \A k \in 1..Len(hex_str) : isxdigit(hex_str[k])

\* hex_str.substr(pos, 2): std::out_of_range when pos is past the end, else the
\* at most two characters from pos (pos counts from 0)
substr2(hex_str, pos) ==
  IF pos > Len(hex_str)
  THEN [ thrown |-> "out_of_range", str |-> << >> ]
  ELSE [ thrown |-> "none",
         str |-> SubSeq(hex_str, pos + 1, IF pos + 2 <= Len(hex_str) THEN pos + 2 ELSE Len(hex_str)) ]

\* the leading hex digits of t, as a number (t has at most two characters)
Digits16(t) ==
  IF Len(t) >= 1 /\ isxdigit(t[1])
  THEN IF Len(t) >= 2 /\ isxdigit(t[2])
       THEN [ any |-> TRUE, val |-> 16 * HexVal(t[1]) + HexVal(t[2]) ]
       ELSE [ any |-> TRUE, val |-> HexVal(t[1]) ]
  ELSE [ any |-> FALSE, val |-> 0 ]

\* t without one leading white space character
SkipSpace(t) == IF Len(t) >= 1 /\ isspace(t[1]) THEN Tail(t) ELSE t

\* t without a leading sign
SkipSign(t) == IF Len(t) >= 1 /\ t[1] \in {43, 45} THEN Tail(t) ELSE t

\* the result of stoul from the digits d read and the sign: std::invalid_argument
\* when there is no digit; a '-' negates the unsigned long, of which the cast
\* to uint8_t keeps the low eight bits
StoulResult(d, neg) ==
  IF d.any
  THEN [ thrown |-> "none", byte |-> IF neg THEN (256 - d.val) % 256 ELSE d.val ]
  ELSE [ thrown |-> "invalid_argument", byte |-> 0 ]

\* stoul on a string without leading white space
StoulSigned(t) == StoulResult(Digits16(SkipSign(t)), Len(t) >= 1 /\ t[1] = 45)

\* (uint8_t) std::stoul(t, nullptr, 16) for a string of at most two characters:
\* white space is skipped, then an optional sign, then hex digits up to the first
\* character that is none
stoul16(t) == StoulSigned(SkipSpace(SkipSpace(t)))

\* src/salsa20.cpp:272-282.  ndebug says whether the build defines NDEBUG, which
\* removes the two asserts.  The result names how the call ends: "none" (it
\* returns word), "abort" (a failed assert ends the process) or the exception
\* that leaves it.  HexBytes is the loop from pass i on, bytes holding
\* bytes[0..i-1]; HexByteSub and HexByteVal are pass i once substr, then stoul,
\* has returned.
RECURSIVE HexBytes(_, _, _, _)
HexByteVal(hex_str, start_pos, i, bytes, b) ==
  IF b.thrown # "none" THEN [ thrown |-> b.thrown, word |-> Zero32 ]
  ELSE HexBytes(hex_str, start_pos, i + 1, Append(bytes, b.byte))

HexByteSub(hex_str, start_pos, i, bytes, sub) ==
  IF sub.thrown # "none" THEN [ thrown |-> sub.thrown, word |-> Zero32 ]
  ELSE HexByteVal(hex_str, start_pos, i, bytes, stoul16(sub.str))

HexBytes(hex_str, start_pos, i, bytes) ==
  IF i < 4
  THEN HexByteSub(hex_str, start_pos, i, bytes, substr2(hex_str, start_pos + 2 * i))
  ELSE [ thrown |-> "none", word |-> littleEndianWordFromBytes(bytes) ]

hexCharsToLittleEndianWord(hex_str, start_pos, ndebug) ==
  IF ~ndebug /\ ~AllHex(hex_str) THEN [ thrown |-> "abort", word |-> Zero32 ]
  ELSE IF ~ndebug /\ ~(start_pos + 8 <= Len(hex_str)) THEN [ thrown |-> "abort", word |-> Zero32 ]
  ELSE HexBytes(hex_str, start_pos, 0, << >>)

\* src/salsa20.cpp:284-289: the four characters from start_pos as bytes
charsToLittleEndianWord(str, start_pos, ndebug) ==
  IF ~ndebug /\ ~(start_pos + 4 <= Len(str))
  THEN [ thrown |-> "abort", word |-> Zero32 ]
  ELSE [ thrown |-> "none",
         word |-> littleEndianWordFromBytes(SubSeq(str, start_pos + 1, start_pos + 4)) ]

----------------------------------------------------------------------------
(* initMatrix, src/salsa20.cpp:98-136 *)

\* uint32_t _matrix[4][4] = {0};
ZeroMatrix ==
  << << Zero32, Zero32, Zero32, Zero32 >>, << Zero32, Zero32, Zero32, Zero32 >>,
     << Zero32, Zero32, Zero32, Zero32 >>, << Zero32, Zero32, Zero32, Zero32 >> >>

\* "expand 32-byte k"
constants_32byte_key ==
  << 101, 120, 112, 97, 110, 100, 32, 51, 50, 45, 98, 121, 116, 101, 32, 107 >>

\* "expand 16-byte k"
constants_16byte_key ==
  << 101, 120, 112, 97, 110, 100, 32, 49, 54, 45, 98, 121, 116, 101, 32, 107 >>

\* key is the array key[8], key[j + 1] of the model being key[j] of the code.
\* The twelve assignments; the nonce and counter cells keep what matrix holds.
initMatrix(matrix, key, keylen) ==
  LET constants == IF keylen = 32 THEN constants_32byte_key ELSE constants_16byte_key
  IN  << << littleEndianWordFromBytes(SubSeq(constants, 1, 4)), key[1], key[2], key[3] >>,
         << key[4], littleEndianWordFromBytes(SubSeq(constants, 5, 8)),
            Cell(matrix, 1, 2), Cell(matrix, 1, 3) >>,
         << Cell(matrix, 2, 0), Cell(matrix, 2, 1),
            littleEndianWordFromBytes(SubSeq(constants, 9, 12)), key[5] >>,
         << key[6], key[7], key[8], littleEndianWordFromBytes(SubSeq(constants, 13, 16)) >> >>

----------------------------------------------------------------------------
(* The constructors, src/salsa20.cpp:18-80.  The local array key[8] is not   *)
(* initialised: stack is what its eight words hold when the constructor is   *)
(* entered, and written the set of indices (from 0) assigned since.  The     *)
(* result of a constructor is a record: thrown ("none" when an object is     *)
(* constructed, else the exception or "abort"), matrix, and the undefined    *)
(* behaviour the call went through: uninit (initMatrix read a word of key no *)
(* statement wrote) and oob (memcpy ran past the end of the array).          *)

KeyWords == 8

\* memcpy(&key[dst], &key[src], nbytes) on an array of KeyWords words of four
\* bytes.  Inside the array the words dst.. take the words src.. held before
\* the call; oob says the copy read or wrote past the end of the array.
memcpyKey(key, written, dst, src, nbytes) ==
  LET n == nbytes \div 4
  IN  [ key |-> [ j \in 1..KeyWords |->
                    IF j - 1 >= dst /\ j - 1 < dst + n /\ (j - 1 - dst) + src < KeyWords
                    THEN key[(j - 1 - dst) + src + 1] ELSE key[j] ],
        written |-> written \cup { j \in 0..(KeyWords - 1) : j >= dst /\ j < dst + n },
        oob |-> (dst + n > KeyWords) \/ (src + n > KeyWords) ]

\* the loop  for (i=0, j=0; i<key_str.length(); i+=step, j++) key[j] = word(key_str, i)
\* from index j on; the first call that does not return ends it
RECURSIVE FillKey(_, _, _, _, _, _)
\* the assignment key[j] = w of pass j, w being the result of the call, and
\* the passes after it
FillKeyWord(key, key_str, step, hex_key, ndebug, j, w) ==
  IF w.thrown # "none" THEN [ thrown |-> w.thrown, key |-> key, n |-> j ]
  ELSE FillKey([key EXCEPT ![j + 1] = w.word], key_str, step, hex_key, ndebug, j + 1)

FillKey(key, key_str, step, hex_key, ndebug, j) ==
  IF j * step < Len(key_str)
  THEN FillKeyWord(key, key_str, step, hex_key, ndebug, j,
                   IF hex_key THEN hexCharsToLittleEndianWord(key_str, j * step, ndebug)
                   ELSE charsToLittleEndianWord(key_str, j * step, ndebug))
  ELSE [ thrown |-> "none", key |-> key, n |-> j ]

NoObject(why) == [ thrown |-> why, matrix |-> ZeroMatrix, uninit |-> FALSE, oob |-> FALSE ]

\* the tail both branches of the string constructor share: the duplication of
\* the first half and the call of initMatrix
\* initMatrix(key, keylen) called by a constructor whose array key is c.key,
\* with the words c.written assigned
CtorInitMatrix(c, keylen) ==
  [ thrown |-> "none",
    matrix |-> initMatrix(ZeroMatrix, c.key, keylen),
    uninit |-> ~((0..(KeyWords - 1)) \subseteq c.written),
    oob |-> c.oob ]

StringCtorTail(key_str, filled) ==
  IF filled.thrown # "none" THEN NoObject(filled.thrown)
  ELSE IF Len(key_str) = 32
       THEN CtorInitMatrix(memcpyKey(filled.key, 0..(filled.n - 1), 4, 0, 4 * 4), 16)
       ELSE CtorInitMatrix([ key |-> filled.key, written |-> 0..(filled.n - 1), oob |-> FALSE ], 32)

\* the string constructor with one length check, that of the ASCII branch, for
\* both kinds of key: a hex string is taken when it has 16 or 32 characters
Salsa20StringOneCheck(key_str, hex_key, stack, ndebug) ==
  IF ~(Len(key_str) = 16 \/ Len(key_str) = 32) THEN NoObject("length_error")
  ELSE StringCtorTail(key_str, FillKey(stack, key_str, IF hex_key THEN 8 ELSE 4, hex_key, ndebug, 0))

\* Salsa20::Salsa20(const string key_str, bool hex_key)
Salsa20String(key_str, hex_key, stack, ndebug) ==
  IF ~hex_key
  THEN IF ~(Len(key_str) = 16 \/ Len(key_str) = 32) THEN NoObject("length_error")
       ELSE StringCtorTail(key_str, FillKey(stack, key_str, 4, FALSE, ndebug, 0))
  ELSE IF ~(Len(key_str) = 32 \/ Len(key_str) = 64) THEN NoObject("length_error")
       ELSE StringCtorTail(key_str, FillKey(stack, key_str, 8, TRUE, ndebug, 0))

\* the loop  for (i=0, j=0; i < key.size()/4 && j < key.size(); i++, j+=4)
\*               key_words[i] = littleEndianWordFromBytes(&key[j])
RECURSIVE FillKeyWords(_, _, _)
FillKeyWords(key_words, key, i) ==
  IF i < Len(key) \div 4 /\ 4 * i < Len(key)
  THEN FillKeyWords([key_words EXCEPT ![i + 1] =
                        littleEndianWordFromBytes(SubSeq(key, 4 * i + 1, 4 * i + 4))],
                    key, i + 1)
  ELSE [ key |-> key_words, n |-> i ]

\* the vector constructor after its loop; sizeof(key_words) is the size of the
\* whole array, 4 * KeyWords bytes
VectorCtorTail(key, filled) ==
  IF Len(key) = 16
  THEN CtorInitMatrix(memcpyKey(filled.key, 0..(filled.n - 1), 4, 0, 4 * (4 * KeyWords)), 16)
  ELSE CtorInitMatrix([ key |-> filled.key, written |-> 0..(filled.n - 1), oob |-> FALSE ], 32)

\* Salsa20::Salsa20(const vector<uint8_t> key)
Salsa20Vector(key, stack) ==
  IF ~(Len(key) = 16 \/ Len(key) = 32) THEN NoObject("length_error")
  ELSE VectorCtorTail(key, FillKeyWords(stack, key, 0))

----------------------------------------------------------------------------
(* The setters, src/salsa20.cpp:138-168.  A uint64_t is the pair <<hi, lo>>  *)
(* of its high and low 32-bit words.                                         *)

Ones32 == << Half - 1, Half - 1 >>

\* 0xffffffff00000000
MaskHigh == << Ones32, Zero32 >>

\* 0x00000000ffffffff
MaskLow == << Zero32, Ones32 >>

\* x & m on uint64_t
And64(x, m) == << And32(x[1], m[1]), And32(x[2], m[2]) >>

\* x >> 32 on uint64_t
Shr64by32(x) == << Zero32, x[1] >>

\* (uint32_t) x
Trunc32(x) == x[2]

\* 0 as a uint64_t
Zero64 == << Zero32, Zero32 >>

\* void Salsa20::setCounter(const uint64_t counter)
setCounter(matrix, counter) ==
  LET m1 == SetCell(matrix, 2, 0, Trunc32(Shr64by32(And64(counter, MaskHigh))))
  IN  SetCell(m1, 2, 1, Trunc32(Shr64by32(And64(counter, MaskLow))))

\* setNonce(uint64_t) without its last statement, setCounter(0): the fault that
\* C6_SetNonceZeroesCounter has to tell from the code
setNonceKeepsCounter(matrix, nonce) ==
  LET m1 == SetCell(matrix, 1, 2, Trunc32(Shr64by32(And64(nonce, MaskHigh))))
  IN  SetCell(m1, 1, 3, Trunc32(Shr64by32(And64(nonce, MaskLow))))

\* void Salsa20::setNonce(const uint64_t nonce)
setNonce(matrix, nonce) ==
  LET m1 == SetCell(matrix, 1, 2, Trunc32(Shr64by32(And64(nonce, MaskHigh))))
      m2 == SetCell(m1, 1, 3, Trunc32(Shr64by32(And64(nonce, MaskLow))))
  IN  setCounter(m2, Zero64)

\* The two-word pattern both string setters share: the cells [row][c0] and
\* [row][c1] are assigned from the characters 0.. and 8.. of hex_str, each
\* assignment made as soon as its word is computed, so a call that does not
\* return leaves matrix with the assignments made before it.
\* SetOneWord is the assignment _matrix[row][col] = w, w being the result of
\* the call of hexCharsToLittleEndianWord on its right.
SetOneWord(matrix, row, col, w) ==
  IF w.thrown # "none" THEN [ thrown |-> w.thrown, matrix |-> matrix ]
  ELSE [ thrown |-> "none", matrix |-> SetCell(matrix, row, col, w.word) ]

\* the second assignment, after the first ended as r1
SetSecondWord(r1, hex_str, ndebug, row, c1) ==
  IF r1.thrown # "none" THEN r1
  ELSE SetOneWord(r1.matrix, row, c1, hexCharsToLittleEndianWord(hex_str, 8, ndebug))

SetTwoWords(matrix, hex_str, ndebug, row, c0, c1) ==
  IF ~ndebug /\ Len(hex_str) # 16 THEN [ thrown |-> "abort", matrix |-> matrix ]
  ELSE SetSecondWord(SetOneWord(matrix, row, c0, hexCharsToLittleEndianWord(hex_str, 0, ndebug)),
                     hex_str, ndebug, row, c1)

\* the last statement of setNonce(string), setCounter(0), after the two
\* assignments ended as r
SetNonceHexEnd(r) ==
  IF r.thrown # "none" THEN r
  ELSE [ thrown |-> "none", matrix |-> setCounter(r.matrix, Zero64) ]

\* void Salsa20::setNonce(const string hex_str)
setNonceHex(matrix, hex_str, ndebug) ==
  SetNonceHexEnd(SetTwoWords(matrix, hex_str, ndebug, 1, 2, 3))

\* void Salsa20::setCounter(const string hex_str)
setCounterHex(matrix, hex_str, ndebug) == SetTwoWords(matrix, hex_str, ndebug, 2, 0, 1)

----------------------------------------------------------------------------
(* encryptBytes, src/salsa20.cpp:253-270.  block is the function-local       *)
(* static buffer, one for the whole program; _stream_pos is the instance's  *)
(* cursor.                                                                   *)

BlockBytes == 64

\* static uint8_t block[64] = {0};
ZeroBlock == [ k \in 1..BlockBytes |-> 0 ]

\* One pass of the loop body for the input byte in, on the record st of
\* matrix, stream_pos, block, the output bytes so far and blocks, the
\* keyStreamBlock calls so far: the counter cells each started from and the
\* block it produced.
\* EncryptXor is the XOR statement of the pass, pos being _stream_pos after
\* the reduction modulo 64 and ksb what the pass holds after the if: the
\* result of keyStreamBlock(block) when it called it, else block and _matrix
\* as they were.
EncryptXor(st, in, pos, ksb) ==
  [ matrix     |-> ksb.matrix,
    block      |-> ksb.out_block,
    stream_pos |-> pos + 1,
    output     |-> Append(st.output, Xor16(ksb.out_block[pos + 1], in)),
    blocks     |-> IF pos = 0
                   THEN Append(st.blocks, [ ctr |-> << Cell(st.matrix, 2, 0), Cell(st.matrix, 2, 1) >>,
                                            out |-> ksb.out_block ])
                   ELSE st.blocks ]

EncryptStep(st, in) ==
  EncryptXor(st, in, st.stream_pos % BlockBytes,
             IF st.stream_pos % BlockBytes = 0 THEN keyStreamBlock(st.matrix)
             ELSE [ out_block |-> st.block, matrix |-> st.matrix ])

\* for (size_t i=0; i<num_bytes; i++) { ... }: the passes lo .. hi-1 of the
\* loop in order, the first half before the second (halving keeps TLC's
\* evaluation shallow)
RECURSIVE EncryptLoop(_, _, _, _)
EncryptLoop(st, input, lo, hi) ==
  IF hi <= lo THEN st
  ELSE IF hi = lo + 1 THEN EncryptStep(st, input[lo + 1])
  ELSE LET mid == (lo + hi) \div 2
       IN  CHOOSE done \in { EncryptLoop(half, input, mid, hi) :
                             half \in { EncryptLoop(st, input, lo, mid) } } : TRUE

\* encryptBytes with a cursor that starts every call at 0 instead of the member
\* _stream_pos: the fault that C3_ChunksEqualSingleCall has to tell from the code
encryptBytesCursorPerCall(matrix, stream_pos, blk, input) ==
  LET st0 == [ matrix |-> matrix, block |-> blk, stream_pos |-> 0,
               output |-> << >>, blocks |-> << >> ]
  IN  IF Len(input) = 0 THEN [ st0 EXCEPT !.stream_pos = stream_pos ]
      ELSE EncryptLoop(st0, input, 0, Len(input))

\* void Salsa20::encryptBytes(uint8_t* input, uint8_t* output, const size_t num_bytes)
encryptBytes(matrix, stream_pos, blk, input) ==
  LET st0 == [ matrix |-> matrix, block |-> blk, stream_pos |-> stream_pos,
               output |-> << >>, blocks |-> << >> ]
  IN  IF Len(input) = 0 THEN st0 ELSE EncryptLoop(st0, input, 0, Len(input))

----------------------------------------------------------------------------
(* The state machine.  Each action is one call on instance i.               *)

Inst == {1, 2}

\* the number of calls a run makes on constructed instances
MaxOps == 3

\* the two counter cells, as the code names them: [2][0] and [2][1]
CounterCells(m) == << Cell(m, 2, 0), Cell(m, 2, 1) >>

\* the two nonce cells [1][2] and [1][3]
NonceCells(m) == << Cell(m, 1, 2), Cell(m, 1, 3) >>

\* the history of an instance at the start of a stream: the instance as it is
\* then, and nothing encrypted yet.  since and arg name the constructor or
\* setter call the instance saw last, and ctrs lists the counter cells each
\* keyStreamBlock call since then started from.
NewHist(m, pos, blk, ctrs, since, arg) ==
  [ start |-> [ matrix |-> m, stream_pos |-> pos, block |-> blk ],
    input |-> << >>, output |-> << >>, alone |-> << >>, gen |-> << >>, calls |-> 0,
    ctrs |-> ctrs, since |-> since, arg |-> arg ]

\* the last call: gen counts the keyStreamBlock calls it made
NoCall ==
  [ op |-> "none", i |-> 0, thrown |-> "none", pre |-> ZeroMatrix, arg |-> << >>, gen |-> 0 ]

NoCtor == [ kind |-> "none", key |-> << >>, uninit |-> FALSE, oob |-> FALSE ]

NoTv == [ fn |-> "none", input |-> << >>, output |-> << >> ]

\* main is not running: the instances are used by other code
NoProg == [ pc |-> "none" ]

\* the initial value of _stream_pos
StreamPos0 == 0

\* before any constructor has run
Blank ==
  /\ alive = TRUE
  /\ constructed = [ i \in Inst |-> FALSE ]
  /\ matrixOf = [ i \in Inst |-> ZeroMatrix ]
  /\ streamPosOf = [ i \in Inst |-> StreamPos0 ]
  /\ block = ZeroBlock
  /\ ctor = [ i \in Inst |-> NoCtor ]
  /\ hist = [ i \in Inst |-> NewHist(ZeroMatrix, StreamPos0, ZeroBlock, << >>, "none", << >>) ]
  /\ own = [ i \in Inst |-> ZeroBlock ]
  /\ last = NoCall
  /\ nops = 0
  /\ tv = NoTv
  /\ prog = NoProg

\* what a constructor call leaves: res is the record of Salsa20String or
\* Salsa20Vector.  A copy past the end of key[8] is undefined behaviour: the
\* process crashes (crash) or goes on to initMatrix.
Constructed(i, kind, key, res, crash) ==
  LET dead == res.thrown = "abort" \/ (res.oob /\ crash)
      made == res.thrown = "none" /\ ~dead
  IN  /\ alive' = ~dead
      /\ constructed' = [constructed EXCEPT ![i] = made]
      /\ matrixOf' = [matrixOf EXCEPT ![i] = IF made THEN res.matrix ELSE @]
      /\ ctor' = [ctor EXCEPT ![i] = [ kind |-> kind, key |-> key,
                                       uninit |-> res.uninit, oob |-> res.oob ]]
      /\ hist' = [hist EXCEPT ![i] =
                    IF made THEN NewHist(res.matrix, streamPosOf[i], block, << >>,
                                         "construct", << >>)
                    ELSE @]
      /\ last' = [ op |-> "construct", i |-> i,
                   thrown |-> IF res.oob /\ crash THEN "crash" ELSE res.thrown,
                   pre |-> matrixOf[i], arg |-> key, gen |-> 0 ]
      /\ UNCHANGED << NDEBUG, streamPosOf, block, own, nops, tv, prog >>

\* new Salsa20(key_str, hex_key), key[8] holding stack on entry
ConstructString(i, key_str, hex_key, stack) ==
  /\ alive /\ ~constructed[i] /\ ctor[i].kind = "none"
  /\ \E res \in { Salsa20String(key_str, hex_key, stack, NDEBUG) } :
       Constructed(i, IF hex_key THEN "hex" ELSE "ascii", key_str, res, FALSE)

\* new Salsa20(key), key_words[8] holding stack on entry
ConstructVector(i, key, stack) ==
  /\ alive /\ ~constructed[i] /\ ctor[i].kind = "none"
  /\ \E res \in { Salsa20Vector(key, stack) } :
       \E crash \in BOOLEAN : Constructed(i, "bytes", key, res, crash)

\* what a setter call leaves: r is its record of thrown and matrix.  A new
\* stream starts where the call leaves the instance.
SetterDone(i, op, arg, r) ==
  /\ alive' = (r.thrown # "abort")
  /\ matrixOf' = [matrixOf EXCEPT ![i] = r.matrix]
  /\ hist' = [hist EXCEPT ![i] = NewHist(r.matrix, streamPosOf[i], block, << >>, op, arg)]
  /\ last' = [ op |-> op, i |-> i, thrown |-> r.thrown, pre |-> matrixOf[i], arg |-> arg,
               gen |-> 0 ]
  /\ nops' = nops + 1
  /\ UNCHANGED << NDEBUG, constructed, streamPosOf, block, ctor, own, tv, prog >>

SetNonce(i, nonce) ==
  /\ alive /\ constructed[i] /\ nops < MaxOps
  /\ \E m \in { setNonce(matrixOf[i], nonce) } :
       SetterDone(i, "setNonce", nonce, [ thrown |-> "none", matrix |-> m ])

SetNonceHex(i, hex_str) ==
  /\ alive /\ constructed[i] /\ nops < MaxOps
  /\ \E r \in { setNonceHex(matrixOf[i], hex_str, NDEBUG) } :
       SetterDone(i, "setNonceHex", hex_str, r)

SetCounter(i, counter) ==
  /\ alive /\ constructed[i] /\ nops < MaxOps
  /\ \E m \in { setCounter(matrixOf[i], counter) } :
       SetterDone(i, "setCounter", counter, [ thrown |-> "none", matrix |-> m ])

SetCounterHex(i, hex_str) ==
  /\ alive /\ constructed[i] /\ nops < MaxOps
  /\ \E r \in { setCounterHex(matrixOf[i], hex_str, NDEBUG) } :
       SetterDone(i, "setCounterHex", hex_str, r)

\* keyStreamBlock(out_block) on a buffer of the caller
KeyStreamBlock(i) ==
  /\ alive /\ constructed[i] /\ nops < MaxOps
  /\ \E ksb \in { keyStreamBlock(matrixOf[i]) } :
         /\ matrixOf' = [matrixOf EXCEPT ![i] = ksb.matrix]
         /\ hist' = [hist EXCEPT ![i] =
                       NewHist(ksb.matrix, streamPosOf[i], block,
                               Append(@.ctrs, CounterCells(matrixOf[i])), @.since, @.arg)]
         /\ last' = [ op |-> "keyStreamBlock", i |-> i, thrown |-> "none",
                      pre |-> matrixOf[i], arg |-> ksb.out_block, gen |-> 1 ]
  /\ nops' = nops + 1
  /\ UNCHANGED << NDEBUG, alive, constructed, streamPosOf, block, ctor, own, tv, prog >>

\* encryptBytes(input, output, Len(input)).  alone is what the call writes
\* when block holds what this instance itself put there last.
EncryptBytes(i, input) ==
  /\ alive /\ constructed[i] /\ nops < MaxOps
  /\ \E r \in { encryptBytes(matrixOf[i], streamPosOf[i], block, input) } :
     \E a \in { IF own[i] = block THEN r
                ELSE encryptBytes(matrixOf[i], streamPosOf[i], own[i], input) } :
         /\ matrixOf' = [matrixOf EXCEPT ![i] = r.matrix]
         /\ streamPosOf' = [streamPosOf EXCEPT ![i] = r.stream_pos]
         /\ block' = r.block
         /\ own' = [own EXCEPT ![i] = a.block]
         /\ hist' = [hist EXCEPT ![i] =
                       [ @ EXCEPT !.input = @ \o input,
                                  !.output = @ \o r.output,
                                  !.alone = @ \o a.output,
                                  !.gen = @ \o [ k \in 1..Len(r.blocks) |-> r.blocks[k].out ],
                                  !.calls = @ + 1,
                                  !.ctrs = @ \o [ k \in 1..Len(r.blocks) |-> r.blocks[k].ctr ] ]]
         /\ last' = [ op |-> "encryptBytes", i |-> i, thrown |-> "none",
                      pre |-> matrixOf[i], arg |-> input, gen |-> Len(r.blocks) ]
  /\ nops' = nops + 1
  /\ UNCHANGED << NDEBUG, alive, constructed, ctor, tv, prog >>

----------------------------------------------------------------------------
(* Inputs.  Strings are written by their character codes.                    *)

\* a word from its two 16-bit halves
W(hi, lo) == << hi, lo >>

\* the hex digit (a character code) of a value 0..15, lower case
HexChar(v) == IF v < 10 THEN 48 + v ELSE 87 + v

\* "000102...": the hex string of the n bytes first, first+1, ...
HexRun(first, n) ==
  [ k \in 1..(2 * n) |->
      LET byte == (first + ((k - 1) \div 2)) % 256
      IN  IF k % 2 = 1 THEN HexChar(byte \div 16) ELSE HexChar(byte % 16) ]

\* "ABC...": the string of the n characters first, first+1, ...
AsciiRun(first, n) == [ k \in 1..n |-> first + k - 1 ]

\* the plaintext byte at place p of a stream (p counts from 0)
PlainByte(p) == (7 * p + 3) % 256

\* the n plaintext bytes from place p on
Plain(p, n) == [ k \in 1..n |-> PlainByte(p + k - 1) ]

\* what key[8] may hold on entry to a constructor
Stacks ==
  { [ j \in 1..KeyWords |-> W(0, 0) ],
    [ j \in 1..KeyWords |-> W(\H7ffe, 4096 + j) ] }

----------------------------------------------------------------------------
(* Spec: one instance, constructed from a 32-byte key given in hex, and any  *)
(* MaxOps calls of the setters, keyStreamBlock and encryptBytes on it.       *)

\* the key of the instance: "0102...20"
StreamKey == HexRun(1, 32)

Nonces64 == { << W(\H0102, \H0304), W(\H0506, \H0708) >> }

\* "1112131415161718"
NoncesHex == { HexRun(17, 8) }

\* 2^32 + 1
Counters64 == { << W(0, 1), W(0, 1) >> }

\* "2122232425262728"
CountersHex == { HexRun(33, 8) }

ChunkLens == { 0, 63, 65 }

\* Salsa20 s(StreamKey, true) in a build with or without NDEBUG
OneBuilt(ndebug) ==
  /\ NDEBUG = ndebug
  /\ \E stack \in Stacks :
       \E res \in { Salsa20String(StreamKey, TRUE, stack, ndebug) } :
           /\ alive = TRUE
           /\ constructed = [ i \in Inst |-> i = 1 ]
           /\ matrixOf = [ i \in Inst |-> IF i = 1 THEN res.matrix ELSE ZeroMatrix ]
           /\ streamPosOf = [ i \in Inst |-> StreamPos0 ]
           /\ block = ZeroBlock
           /\ ctor = [ i \in Inst |->
                         IF i = 1 THEN [ kind |-> "hex", key |-> StreamKey,
                                         uninit |-> res.uninit, oob |-> res.oob ]
                         ELSE NoCtor ]
           /\ hist = [ i \in Inst |->
                         IF i = 1 THEN NewHist(res.matrix, StreamPos0, ZeroBlock, << >>,
                                               "construct", << >>)
                         ELSE NewHist(ZeroMatrix, StreamPos0, ZeroBlock, << >>, "none", << >>) ]
           /\ own = [ i \in Inst |-> ZeroBlock ]
           /\ last = NoCall
           /\ nops = 0
           /\ tv = NoTv
           /\ prog = NoProg

Init == OneBuilt(FALSE)

Next ==
  \/ \E nonce \in Nonces64 : SetNonce(1, nonce)
  \/ \E hex_str \in NoncesHex : SetNonceHex(1, hex_str)
  \/ \E counter \in Counters64 : SetCounter(1, counter)
  \/ \E hex_str \in CountersHex : SetCounterHex(1, hex_str)
  \/ KeyStreamBlock(1)
  \/ \E n \in ChunkLens : EncryptBytes(1, Plain(Len(hist[1].input), n))

Spec == Init /\ [][Next]_vars

----------------------------------------------------------------------------
(* Properties of Spec *)

\* the counter values one above c, the two cells read as a 64-bit number with
\* its high word in [2][0] (the order of setCounter) or in [2][1]
Succ64(c) ==
  LET a == Add32(c[1], One32)
      b == Add32(c[2], One32)
  IN  { << IF IsZero32(b) THEN a ELSE c[1], b >>,
        << a, IF IsZero32(a) THEN b ELSE c[2] >> }

\* the cell pairs that hold the counter value n, for n below 2^16
CounterValue(n) == { << Zero32, << 0, n >> >>, << << 0, n >>, Zero32 >> }

\* C1: every keyStreamBlock call, made directly or by encryptBytes, raises the
\* 64-bit counter in cells [2][0],[2][1] by exactly one: each block is computed
\* from the counter one above that of the block before it and leaves the cells
\* one above its own, the n-th block after setNonce is computed from counter
\* n-1, and no two blocks of a stream are computed from the same counter.
C1_CounterAdvancesPerBlock ==
  \A i \in Inst :
    LET c == hist[i].ctrs
    IN  /\ \A n \in 1..Len(c) :
             (IF n < Len(c) THEN c[n + 1] ELSE CounterCells(matrixOf[i])) \in Succ64(c[n])
        /\ hist[i].since \in { "setNonce", "setNonceHex" }
             => \A n \in 1..Len(c) : c[n] \in CounterValue(n - 1)
        /\ \A m, n \in 1..Len(c) : m # n => c[m] # c[n]

\* the single call on the whole input of a stream, on an instance initialised
\* as the instance was when the stream started
SingleCall(h) == encryptBytes(h.start.matrix, h.start.stream_pos, h.start.block, h.input)

\* Byte p of a stream that started at cursor s0 stands at place s0 + p: it is
\* XORed with byte (s0 + p) mod 64 of the block generated at the last place
\* that is a multiple of 64 (the block the instance held at the start, for
\* the places before the first such), and blocks are generated at those
\* places only.
CursorRule(h) ==
  LET s0 == h.start.stream_pos % BlockBytes
      n == Len(h.input)
      place(p) == s0 + p
      blockAt(p) == IF s0 > 0 /\ place(p) < BlockBytes THEN h.start.block
                    ELSE h.gen[(place(p) \div BlockBytes) + (IF s0 = 0 THEN 1 ELSE 0)]
  IN  /\ Len(h.output) = n
      /\ Len(h.gen) = Cardinality({ p \in 0..(n - 1) : place(p) % BlockBytes = 0 })
      /\ \A p \in 0..(n - 1) :
           h.output[p + 1] = Xor16(blockAt(p)[(place(p) % BlockBytes) + 1], h.input[p + 1])

\* C3: the encryptBytes calls of a stream, whatever the chunks (empty ones and
\* ones that end inside a block included), write together the bytes one call
\* on the whole input writes on an identically initialised instance; byte p is
\* XORed with byte p mod 64 of block floor(p/64) of the stream, and a block is
\* generated exactly at the places p with p mod 64 = 0.
C3_ChunksEqualSingleCall ==
  \A i \in Inst :
    constructed[i] => /\ hist[i].output = SingleCall(hist[i]).output
                      /\ CursorRule(hist[i])

\* three chunks, one of them empty and none a multiple of 64 bytes, that
\* cross a block boundary: 128 bytes from two blocks
C3_Witness ==
  /\ hist[1].calls = 3
  /\ hist[1].start.stream_pos = 0
  /\ Len(hist[1].input) = 128
  /\ Len(hist[1].gen) = 2
  /\ last.op = "encryptBytes" /\ Len(last.arg) = 63

\* C6: a setNonce call that returns, in either overload, leaves both counter
\* cells zero, so the block generated next is the block generated after a
\* following setCounter(0).
C6_SetNonceZeroesCounter ==
  (last.op \in { "setNonce", "setNonceHex" } /\ last.thrown = "none")
    => /\ CounterCells(matrixOf[last.i]) = << Zero32, Zero32 >>
       /\ keyStreamBlock(matrixOf[last.i]).out_block
            = keyStreamBlock(setCounter(matrixOf[last.i], Zero64)).out_block

\* setNonce on an instance that has encrypted and whose two counter cells were
\* both nonzero
C6_Witness ==
  /\ last.op \in { "setNonce", "setNonceHex" } /\ last.thrown = "none"
  /\ Cell(last.pre, 2, 0) # Zero32 /\ Cell(last.pre, 2, 1) # Zero32
  /\ streamPosOf[last.i] > 0

\* C7: the 64-bit setters lose no bit: after setCounter(v) the counter cells,
\* and after setNonce(n) the nonce cells, hold the high and the low 32-bit word
\* of the argument, one in each cell.
C7_SettersKeepAllBits ==
  /\ last.op = "setCounter"
       => CounterCells(matrixOf[last.i])
            \in { << last.arg[1], last.arg[2] >>, << last.arg[2], last.arg[1] >> }
  /\ last.op = "setNonce"
       => NonceCells(matrixOf[last.i])
            \in { << last.arg[1], last.arg[2] >>, << last.arg[2], last.arg[1] >> }

\* the cells initMatrix fills: the four constants and the eight key words
ConstantCells == { << 0, 0 >>, << 1, 1 >>, << 2, 2 >>, << 3, 3 >> }

KeyCells ==
  { << 0, 1 >>, << 0, 2 >>, << 0, 3 >>, << 1, 0 >>, << 2, 3 >>, << 3, 0 >>, << 3, 1 >>, << 3, 2 >> }

\* C12: a call of a setter, of keyStreamBlock or of encryptBytes leaves the
\* four constant cells and the eight key cells as they were, and only the
\* calls of setNonce change the two nonce cells: setCounter, keyStreamBlock and
\* encryptBytes change no cell but the counter cells [2][0] and [2][1].
C12_OnlyNonceAndCounterChange ==
  last.op \in { "setNonce", "setNonceHex", "setCounter", "setCounterHex",
                "keyStreamBlock", "encryptBytes" }
  => /\ \A cell \in ConstantCells \cup KeyCells :
          Cell(matrixOf[last.i], cell[1], cell[2]) = Cell(last.pre, cell[1], cell[2])
     /\ last.op \notin { "setNonce", "setNonceHex" }
          => NonceCells(matrixOf[last.i]) = NonceCells(last.pre)

C12_Witness ==
  /\ nops = 3
  /\ last.op = "keyStreamBlock"
  /\ ~IsZero32(Cell(matrixOf[1], 1, 2))
  /\ ~IsZero32(Cell(matrixOf[1], 2, 0))
  /\ ~IsZero32(Cell(matrixOf[1], 2, 1))
  /\ matrixOf[1] = last.pre

\* the matrix of a new instance with the key of instance i
FreshMatrix(i) ==
  Salsa20String(ctor[i].key, ctor[i].kind = "hex", CHOOSE stack \in Stacks : TRUE, NDEBUG).matrix

\* that matrix after the setNonce call instance i saw last
FreshAfterSetNonce(i) ==
  IF hist[i].since = "setNonce" THEN setNonce(FreshMatrix(i), hist[i].arg)
  ELSE setNonceHex(FreshMatrix(i), hist[i].arg, NDEBUG).matrix

\* C13: whatever an instance did before, what it has written since its last
\* setNonce(N), with encryptBytes calls alone, is what a new instance with the
\* same key writes for the same input after setNonce(N): the output starts at
\* byte 0 of the first block for nonce N.
C13_SetNonceStartsNewStream ==
  \A i \in Inst :
    ( /\ constructed[i]
      /\ hist[i].since \in { "setNonce", "setNonceHex" }
      /\ Len(hist[i].ctrs) = Len(hist[i].gen) )
    => hist[i].output
         = encryptBytes(FreshAfterSetNonce(i), StreamPos0, ZeroBlock, hist[i].input).output

----------------------------------------------------------------------------
(* SpecPair: two instances in one program, each constructed from a key given *)
(* as a string and given a nonce with setNonce, and any MaxOps encryptBytes  *)
(* calls on them: each instance encrypts a plaintext of its own, or the      *)
(* second is handed what the first has written (decryption).                 *)

\* "ABCDEFGHIJKLMNOP" as ASCII, and the 32-byte key of Spec in hex
PairKeys ==
  { [ key_str |-> AsciiRun(65, 16), hex_key |-> FALSE ],
    [ key_str |-> StreamKey, hex_key |-> TRUE ] }

PairLens == { 1, 65 }

\* the instances after  Salsa20 a(k1...), b(k2...); a.setNonce(nonce); b.setNonce(nonce);
\* r1 and r2 are what the two constructor calls return
PairBuilt(k1, k2, r1, r2, nonce) ==
  /\ alive = TRUE
  /\ constructed = [ i \in Inst |-> TRUE ]
  /\ matrixOf = [ i \in Inst |-> setNonce(IF i = 1 THEN r1.matrix ELSE r2.matrix, nonce) ]
  /\ streamPosOf = [ i \in Inst |-> StreamPos0 ]
  /\ block = ZeroBlock
  /\ ctor = [ i \in Inst |->
                IF i = 1
                THEN [ kind |-> IF k1.hex_key THEN "hex" ELSE "ascii", key |-> k1.key_str,
                       uninit |-> r1.uninit, oob |-> r1.oob ]
                ELSE [ kind |-> IF k2.hex_key THEN "hex" ELSE "ascii", key |-> k2.key_str,
                       uninit |-> r2.uninit, oob |-> r2.oob ] ]
  /\ hist = [ i \in Inst |->
                NewHist(setNonce(IF i = 1 THEN r1.matrix ELSE r2.matrix, nonce),
                        StreamPos0, ZeroBlock, << >>, "setNonce", nonce) ]
  /\ own = [ i \in Inst |-> ZeroBlock ]
  /\ last = NoCall
  /\ nops = 0
  /\ tv = NoTv
  /\ prog = NoProg

InitPair ==
  /\ NDEBUG = FALSE
  /\ \E k1 \in PairKeys, k2 \in PairKeys, s1 \in Stacks, s2 \in Stacks, nonce \in Nonces64 :
       \E r1 \in { Salsa20String(k1.key_str, k1.hex_key, s1, FALSE) },
          r2 \in { Salsa20String(k2.key_str, k2.hex_key, s2, FALSE) } :
         PairBuilt(k1, k2, r1, r2, nonce)

\* instance i encrypts the next n bytes of its plaintext
EncryptOwn(i, n) ==
  /\ hist[i].input = Plain(0, Len(hist[i].input))
  /\ EncryptBytes(i, Plain(Len(hist[i].input), n))

\* instance 2 is handed, in one call, the bytes instance 1 has written and
\* instance 2 has not yet read
Decrypt ==
  /\ Len(hist[2].input) < Len(hist[1].output)
  /\ hist[2].input = SubSeq(hist[1].output, 1, Len(hist[2].input))
  /\ EncryptBytes(2, SubSeq(hist[1].output, Len(hist[2].input) + 1, Len(hist[1].output)))

NextPair ==
  \/ \E n \in PairLens : EncryptOwn(1, n)
  \/ EncryptOwn(2, 1)
  \/ Decrypt

SpecPair == InitPair /\ [][NextPair]_vars

\* C2: two instances constructed with the same key and given the same nonce
\* undo each other: when the second has been handed exactly the bytes the
\* first wrote, it has written the first's input, and the first wrote as many
\* bytes as it was given.
C2_RoundTrip ==
  ( /\ ctor[1].kind = ctor[2].kind /\ ctor[1].key = ctor[2].key
    /\ hist[1].since = "setNonce" /\ hist[2].since = "setNonce"
    /\ hist[1].arg = hist[2].arg
    /\ hist[2].input = hist[1].output )
  => /\ hist[2].output = hist[1].input
     /\ Len(hist[1].output) = Len(hist[1].input)

\* C8: the instances share no state: whatever the interleaving of the calls,
\* each instance has written the bytes it writes when the buffer block holds
\* what the instance itself put there last.
C8_InstancesShareNothing ==
  \A i \in Inst : hist[i].output = hist[i].alone

----------------------------------------------------------------------------
(* The values of tests() (src/salsa20.cpp, lines 296-396).                   *)

\* uint32_t r1=0xc0a8787e, r2=0x150f0fd8;  assert(r2 == rotate(r1,5));
r1 == W(\Hc0a8, \H787e)
r2 == W(\H150f, \H0fd8)

\* a, b, c, d before and after quarterRound(a, b, c, d)
test_quarter == << W(\He7e8, \Hc006), W(\Hc4f9, \H417d), W(\H6479, \Hb4b2), W(\H68c6, \H7137) >>
quarter_correct == << W(\He876, \Hd72b), W(\H9361, \Hdfd5), W(\Hf146, \H0244), W(\H9485, \H41a3) >>

test_state_rr ==
  << << W(\H0852, \H1bd6), W(\H1fe8, \H8837), W(\Hbb2a, \Ha576), W(\H3aa2, \H6365) >>,
     << W(\Hc54c, \H6a5b), W(\H2fc7, \H4c2f), W(\H6dd3, \H9cc3), W(\Hda0a, \H64f6) >>,
     << W(\H90a2, \Hf23d), W(\H067f, \H95a6), W(\H06b3, \H5f61), W(\H41e4, \H732e) >>,
     << W(\He859, \Hc100), W(\Hea4d, \H84b7), W(\H0f61, \H9bff), W(\Hbc6e, \H965a) >> >>

rr_correct ==
  << << W(\Ha890, \Hd39d), W(\H65d7, \H1596), W(\He948, \H7daa), W(\Hc8ca, \H6a86) >>,
     << W(\H949d, \H2192), W(\H764b, \H7754), W(\He408, \Hd9b9), W(\H7a41, \Hb4d1) >>,
     << W(\H3402, \He183), W(\H3c3a, \Hf432), W(\H5066, \H9f96), W(\Hd89e, \Hf0a8) >>,
     << W(\H0040, \Hede5), W(\Hb545, \Hfbce), W(\Hd257, \Hed4f), W(\H1818, \H882d) >> >>

\* test_state_cl holds the same words as test_state_rr
test_state_cl ==
  << << W(\H0852, \H1bd6), W(\H1fe8, \H8837), W(\Hbb2a, \Ha576), W(\H3aa2, \H6365) >>,
     << W(\Hc54c, \H6a5b), W(\H2fc7, \H4c2f), W(\H6dd3, \H9cc3), W(\Hda0a, \H64f6) >>,
     << W(\H90a2, \Hf23d), W(\H067f, \H95a6), W(\H06b3, \H5f61), W(\H41e4, \H732e) >>,
     << W(\He859, \Hc100), W(\Hea4d, \H84b7), W(\H0f61, \H9bff), W(\Hbc6e, \H965a) >> >>

cl_correct ==
  << << W(\H8c9d, \H190a), W(\Hce8e, \H4c90), W(\H1ef8, \He9d3), W(\H1326, \Ha71a) >>,
     << W(\H90a2, \H0123), W(\Head3, \Hc4f3), W(\H63a0, \H91a0), W(\Hf070, \H8d69) >>,
     << W(\H789b, \H010c), W(\Hd195, \Ha681), W(\Heb7d, \H5504), W(\Ha774, \H135c) >>,
     << W(\H481c, \H2027), W(\H53a8, \He4b5), W(\H4c1f, \H89c5), W(\H3f78, \Hc9c8) >> >>

test_state_dr ==
  << << W(\Hde50, \H1066), W(\H6f9e, \Hb8f7), W(\He4fb, \Hbd9b), W(\H454e, \H3f57) >>,
     << W(\Hb755, \H40d3), W(\H43e9, \H3a4c), W(\H3a6f, \H2aa0), W(\H726d, \H6b36) >>,
     << W(\H9243, \Hf484), W(\H9145, \Hd1e8), W(\H4fa9, \Hd247), W(\Hdc8d, \Hee11) >>,
     << W(\H054b, \Hf545), W(\H254d, \Hd653), W(\Hd942, \H1b6d), W(\H67b2, \H76c1) >> >>

dr_correct ==
  << << W(\Hccaa, \Hf672), W(\H23d9, \H60f7), W(\H9153, \He63a), W(\Hcd9a, \H60d0) >>,
     << W(\H5044, \H0492), W(\Hf07c, \Had19), W(\Hae34, \H4aa0), W(\Hdf4c, \Hfdfc) >>,
     << W(\Hca53, \H1c29), W(\H8e79, \H43db), W(\Hac16, \H80cd), W(\Hd503, \Hca00) >>,
     << W(\Ha74b, \H2ad6), W(\Hbc33, \H1c5c), W(\H1dda, \H24c7), W(\Hee92, \H8277) >> >>

ksb_tst_bytes ==
  << 211, 159, 13, 115, 76, 55, 82, 183, 3, 117, 222, 37, 191, 187, 234, 136,
     49, 237, 179, 48, 1, 106, 178, 219, 175, 199, 166, 48, 86, 16, 179, 207,
     31, 240, 32, 63, 15, 83, 93, 161, 116, 147, 48, 113, 238, 55, 204, 36,
     79, 201, 235, 79, 3, 81, 156, 47, 203, 26, 244, 243, 88, 118, 104, 54 >>

out_block_correct ==
  << 109, 42, 178, 168, 156, 240, 248, 238, 168, 196, 190, 203, 26, 110, 170, 154,
     29, 29, 150, 26, 150, 30, 235, 249, 190, 163, 251, 48, 69, 144, 51, 57,
     118, 40, 152, 157, 180, 57, 27, 94, 107, 42, 236, 35, 27, 111, 114, 114,
     219, 236, 232, 135, 111, 155, 110, 18, 24, 232, 95, 158, 179, 19, 48, 202 >>

\* _matrix[row][col] = littleEndianWordFromBytes(ksb_tst_bytes+i), i += 4
ksb_matrix ==
  Array4x4([row \in Idx |-> [col \in Idx |->
      littleEndianWordFromBytes(SubSeq(ksb_tst_bytes, 4 * (4 * row + col) + 1,
                                       4 * (4 * row + col) + 4))]])

----------------------------------------------------------------------------
(* SpecRounds: the round functions and keyStreamBlock as functions: a matrix *)
(* is drawn, and one of the functions is applied to it, to one of its rows   *)
(* or to one of its words.                                                   *)

\* a matrix whose rows hold the words tests() gives to quarterRound and rotate
words_matrix ==
  << test_quarter,
     << r1, r2, W(0, 1), W(\H8000, 0) >>,
     << W(\Hffff, \Hffff), W(\Hffff, \Hffff), W(\Hffff, \Hffff), W(\Hffff, \Hffff) >>,
     << W(0, \Hffff), W(\Hffff, 0), W(\H7fff, \Hffff), W(\H8000, 1) >> >>

RoundMatrices ==
  { test_state_rr, test_state_dr, ksb_matrix, words_matrix, ZeroMatrix,
    initMatrix(ZeroMatrix, [ j \in 1..KeyWords |-> W(\H0403 + 1028 * (j - 1), \H0201 + 1028 * (j - 1)) ], 32) }

RotateBits == { 5, 7, 9, 13, 18 }

InitRounds ==
  /\ NDEBUG = FALSE
  /\ alive = TRUE
  /\ constructed = [ i \in Inst |-> FALSE ]
  /\ matrixOf = [ i \in Inst |-> ZeroMatrix ]
  /\ streamPosOf = [ i \in Inst |-> StreamPos0 ]
  /\ block = ZeroBlock
  /\ ctor = [ i \in Inst |-> NoCtor ]
  /\ hist = [ i \in Inst |-> NewHist(ZeroMatrix, StreamPos0, ZeroBlock, << >>, "none", << >>) ]
  /\ own = [ i \in Inst |-> ZeroBlock ]
  /\ last = NoCall
  /\ nops = 0
  /\ prog = NoProg
  /\ \E matrix \in RoundMatrices : tv = [ fn |-> "none", input |-> matrix, output |-> << >> ]

\* fn was applied to input and left output
Applied(fn, input, output) ==
  /\ tv' = [ fn |-> fn, input |-> input, output |-> output ]
  /\ UNCHANGED << NDEBUG, alive, constructed, matrixOf, streamPosOf, block, ctor, hist, own,
                  last, nops, prog >>

ApplyRotate(row, col, bits) ==
  /\ tv.fn = "none"
  /\ Applied("rotate", << Cell(tv.input, row, col), bits >>, rotate(Cell(tv.input, row, col), bits))

ApplyQuarterRound(row) ==
  /\ tv.fn = "none"
  /\ Applied("quarterRound", tv.input[row + 1],
             quarterRound(Cell(tv.input, row, 0), Cell(tv.input, row, 1),
                          Cell(tv.input, row, 2), Cell(tv.input, row, 3)))

ApplyRowRound ==
  /\ tv.fn = "none"
  /\ Applied("rowRound", tv.input, rowRound(tv.input))

ApplyColumnRound ==
  /\ tv.fn = "none"
  /\ Applied("columnRound", tv.input, columnRound(tv.input))

ApplyDoubleRound ==
  /\ tv.fn = "none"
  /\ Applied("doubleRound", tv.input, doubleRound(tv.input))

\* keyStreamBlock(out_block) on an instance whose _matrix holds the matrix
ApplyKeyStreamBlock ==
  /\ tv.fn = "none"
  /\ Applied("keyStreamBlock", tv.input, keyStreamBlock(tv.input))

NextRounds ==
  \/ \E row \in Idx, col \in Idx, bits \in RotateBits : ApplyRotate(row, col, bits)
  \/ \E row \in Idx : ApplyQuarterRound(row)
  \/ ApplyRowRound
  \/ ApplyColumnRound
  \/ ApplyDoubleRound
  \/ ApplyKeyStreamBlock

SpecRounds == InitRounds /\ [][NextRounds]_vars

(* The published Salsa20 functions (D. J. Bernstein, "Salsa20 specification"), *)
(* on sequences of 16 words x[1..16] = x0..x15.                                *)

\* a <<< n, 0 < n < 32: the two halves shifted, with the bits that leave one
\* half entering the other
PubRotl(a, n) ==
  IF n < 16
  THEN << (a[1] * Pow2(n) + a[2] \div Pow2(16 - n)) % Half,
          (a[2] * Pow2(n) + a[1] \div Pow2(16 - n)) % Half >>
  ELSE IF n = 16 THEN << a[2], a[1] >>
       ELSE << (a[2] * Pow2(n - 16) + a[1] \div Pow2(32 - n)) % Half,
               (a[1] * Pow2(n - 16) + a[2] \div Pow2(32 - n)) % Half >>

\* z1 = y1 xor ((y0 + y3) <<< 7),  z2 = y2 xor ((z1 + y0) <<< 9),
\* z3 = y3 xor ((z2 + z1) <<< 13), z0 = y0 xor ((z3 + z2) <<< 18)
PubQuarter0(y0, z1, z2, z3) == << Xor32(y0, PubRotl(Add32(z3, z2), 18)), z1, z2, z3 >>
PubQuarter3(y0, z1, z2, y3) == PubQuarter0(y0, z1, z2, Xor32(y3, PubRotl(Add32(z2, z1), 13)))
PubQuarter2(y0, z1, y2, y3) == PubQuarter3(y0, z1, Xor32(y2, PubRotl(Add32(z1, y0), 9)), y3)
PubQuarterRound(y0, y1, y2, y3) == PubQuarter2(y0, Xor32(y1, PubRotl(Add32(y0, y3), 7)), y2, y3)

\* (z0,z1,z2,z3) = quarterround(y0,y1,y2,y3), (z5,z6,z7,z4) = quarterround(y5,y6,y7,y4),
\* (z10,z11,z8,z9) = quarterround(y10,y11,y8,y9), (z15,z12,z13,z14) = quarterround(y15,y12,y13,y14)
PubRows(q0, q1, q2, q3) ==
  << q0[1], q0[2], q0[3], q0[4],  q1[4], q1[1], q1[2], q1[3],
     q2[3], q2[4], q2[1], q2[2],  q3[2], q3[3], q3[4], q3[1] >>

PubRowRound(y) ==
  PubRows(PubQuarterRound(y[1], y[2], y[3], y[4]), PubQuarterRound(y[6], y[7], y[8], y[5]),
          PubQuarterRound(y[11], y[12], y[9], y[10]), PubQuarterRound(y[16], y[13], y[14], y[15]))

\* the matrix of x mirrored in its diagonal
PubTranspose(x) == [ k \in 1..16 |-> x[4 * ((k - 1) % 4) + ((k - 1) \div 4) + 1] ]

\* columnround is rowround on the transposed matrix
PubColumnRound(x) ==
  CHOOSE done \in { PubTranspose(rows) : rows \in { PubRowRound(PubTranspose(x)) } } : TRUE

\* doubleround(x) = rowround(columnround(x))
PubDoubleRound(x) ==
  CHOOSE done \in { PubRowRound(columns) : columns \in { PubColumnRound(x) } } : TRUE

RECURSIVE PubDoubleRounds(_, _)
\* doubleround applied n times
PubDoubleRounds(x, n) ==
  IF n = 0 THEN x
  ELSE CHOOSE done \in { PubDoubleRounds(next, n - 1) : next \in { PubDoubleRound(x) } } : TRUE

\* littleendian^-1 of a word: its four bytes, lowest first
PubBytes(a) == << a[2] % 256, a[2] \div 256, a[1] % 256, a[1] \div 256 >>

RECURSIVE PubSerial(_, _, _)
\* the bytes of the words z[k] + x[k], k = from..16
PubSerial(x, z, from) ==
  IF from > 16 THEN << >>
  ELSE PubBytes(Add32(x[from], z[from])) \o PubSerial(x, z, from + 1)

\* Salsa20(x) = x + doubleround^10(x), as 64 bytes
PubSalsa20(x) ==
  CHOOSE done \in { PubSerial(x, z, 1) : z \in { PubDoubleRounds(x, 10) } } : TRUE

\* the 16 words of a matrix, row by row
PubWords(matrix) == [ k \in 1..16 |-> matrix[((k - 1) \div 4) + 1][((k - 1) % 4) + 1] ]

\* C4: rotate, quarterRound, rowRound, columnRound, doubleRound and
\* keyStreamBlock compute the published rotation, quarterround, rowround,
\* columnround, doubleround and Salsa20 block function of their input, and give
\* the values tests() asserts for the inputs of tests().
C4_KeyStreamBlockIsSalsa20 ==
  /\ tv.fn = "rotate" =>
       /\ tv.output = PubRotl(tv.input[1], tv.input[2])
       /\ tv.input = << r1, 5 >> => tv.output = r2
  /\ tv.fn = "quarterRound" =>
       /\ tv.output = PubQuarterRound(tv.input[1], tv.input[2], tv.input[3], tv.input[4])
       /\ tv.input = test_quarter => tv.output = quarter_correct
  /\ tv.fn = "rowRound" =>
       /\ PubWords(tv.output) = PubRowRound(PubWords(tv.input))
       /\ tv.input = test_state_rr => tv.output = rr_correct
  /\ tv.fn = "columnRound" =>
       /\ PubWords(tv.output) = PubColumnRound(PubWords(tv.input))
       /\ tv.input = test_state_cl => tv.output = cl_correct
  /\ tv.fn = "doubleRound" =>
       /\ PubWords(tv.output) = PubDoubleRound(PubWords(tv.input))
       /\ tv.input = test_state_dr => tv.output = dr_correct
  /\ tv.fn = "keyStreamBlock" =>
       /\ tv.output.out_block = PubSalsa20(PubWords(tv.input))
       /\ tv.input = ksb_matrix => tv.output.out_block = out_block_correct

C4_Witness ==
  /\ tv.fn = "keyStreamBlock"
  /\ tv.input = ksb_matrix
  /\ tv.output.out_block = out_block_correct
  /\ tv.output.out_block = PubSalsa20(PubWords(ksb_matrix))

----------------------------------------------------------------------------
(* SpecCtor: the constructors.  Each of two instances is constructed once,   *)
(* from a string read as ASCII or as hex or from a byte vector, of a length  *)
(* the constructor accepts or not, in a build with or without assert.        *)

CtorStrings ==
  { AsciiRun(65, 15), AsciiRun(65, 16), AsciiRun(65, 32), AsciiRun(65, 33),
    HexRun(1, 8), HexRun(1, 16), HexRun(1, 32), HexRun(1, 16) \o << 48 >> }

CtorVectors == { Plain(0, 15), Plain(0, 16), Plain(0, 17), Plain(0, 32), Plain(0, 33) }

InitCtor == Blank /\ NDEBUG \in BOOLEAN

NextCtor ==
  \/ \E i \in Inst, key_str \in CtorStrings, hex_key \in BOOLEAN, stack \in Stacks :
       ConstructString(i, key_str, hex_key, stack)
  \/ \E i \in Inst, key \in CtorVectors, stack \in Stacks : ConstructVector(i, key, stack)

SpecCtor == InitCtor /\ [][NextCtor]_vars

\* the bytes a key stands for: the characters of an ASCII string, the bytes of
\* a vector, one byte for each two digits of a hex string
RECURSIVE DecodedKey(_, _)
DecodedKey(kind, key) ==
  IF kind # "hex" THEN key
  ELSE IF Len(key) < 2 THEN << >>
       ELSE << 16 * HexVal(key[1]) + HexVal(key[2]) >> \o DecodedKey(kind, SubSeq(key, 3, Len(key)))

\* key word j (from 0) of the key bytes kb: bytes 4j..4j+3, lowest first; a
\* 16-byte key has its four words in both halves
KeyWord(kb, j) ==
  << 256 * kb[4 * (j % (Len(kb) \div 4)) + 4] + kb[4 * (j % (Len(kb) \div 4)) + 3],
     256 * kb[4 * (j % (Len(kb) \div 4)) + 2] + kb[4 * (j % (Len(kb) \div 4)) + 1] >>

\* the matrix of the key bytes kb: "expa", "nd 3" or "nd 1", "2-by" or "6-by",
\* "te k" on the diagonal, the key words around them, nonce and counter zero
KeyMatrix(kb) ==
  << << W(\H6170, \H7865), KeyWord(kb, 0), KeyWord(kb, 1), KeyWord(kb, 2) >>,
     << KeyWord(kb, 3), IF Len(kb) = 32 THEN W(\H3320, \H646e) ELSE W(\H3120, \H646e),
        Zero32, Zero32 >>,
     << Zero32, Zero32, IF Len(kb) = 32 THEN W(\H7962, \H2d32) ELSE W(\H7962, \H2d36),
        KeyWord(kb, 4) >>,
     << KeyWord(kb, 5), KeyWord(kb, 6), KeyWord(kb, 7), W(\H6b20, \H6574) >> >>

\* C5: an instance constructed from a key holds the matrix of the decoded key
\* bytes (constants by the decoded length, key words, zero nonce and counter),
\* and its constructor read no key word it had not written and wrote nothing
\* outside the key array.
C5_MatrixFromKey ==
  \A i \in Inst :
    (constructed[i] /\ (ctor[i].kind = "hex" => AllHex(ctor[i].key))) =>
      /\ matrixOf[i] = KeyMatrix(DecodedKey(ctor[i].kind, ctor[i].key))
      /\ ~ctor[i].uninit
      /\ ~ctor[i].oob

\* the lengths a key of a kind is accepted with
AcceptedLength(kind, key) ==
  IF kind = "hex" THEN Len(key) \in { 32, 64 } ELSE Len(key) \in { 16, 32 }

\* C9: a constructor call with a key of a length other than 16 or 32 bytes (32
\* or 64 characters for a hex string) ends in length_error and constructs no
\* instance; a call with a key of such a length does not end in length_error.
C9_KeyLengthChecked ==
  last.op = "construct" =>
    IF AcceptedLength(ctor[last.i].kind, last.arg)
    THEN last.thrown # "length_error"
    ELSE last.thrown = "length_error" /\ ~constructed[last.i] /\ alive

C9_Witness ==
  /\ constructed[1] /\ ctor[1].kind = "hex" /\ Len(ctor[1].key) = 64
  /\ last.op = "construct" /\ last.i = 2 /\ ctor[2].kind = "hex" /\ Len(last.arg) = 16
  /\ last.thrown = "length_error" /\ ~constructed[2]

----------------------------------------------------------------------------
(* SpecNonce: setNonce(string) on one instance, with strings of the right    *)
(* and of other lengths and with characters that are no hex digits, in a     *)
(* build with or without assert; setCounter(string) puts a counter other     *)
(* than zero in place before.                                                *)

\* "1112131415161718", and: one character more, one less, the first eight
\* alone, 'g' as first character of the second byte, as second character of
\* it, as first character of the sixth byte, and the empty string
NonceStrings ==
  { HexRun(17, 8),
    HexRun(17, 8) \o << 49 >>,
    SubSeq(HexRun(17, 8), 1, 15),
    HexRun(17, 4),
    [ HexRun(17, 8) EXCEPT ![3] = 103 ],
    [ HexRun(17, 8) EXCEPT ![4] = 103 ],
    [ HexRun(17, 8) EXCEPT ![11] = 103 ],
    << >> }

InitNonce == \E ndebug \in BOOLEAN : OneBuilt(ndebug)

NextNonce ==
  \/ \E hex_str \in NonceStrings : SetNonceHex(1, hex_str)
  \/ \E hex_str \in CountersHex : SetCounterHex(1, hex_str)

SpecNonce == InitNonce /\ [][NextNonce]_vars

\* C10: a call of setNonce(string) with a string that has not 16 characters or
\* has a character that is no hex digit ends in an exception the caller gets,
\* and the matrix after it is the matrix before it.
C10_BadNonceRejected ==
  ( /\ last.op = "setNonceHex"
    /\ (Len(last.arg) # 16 \/ ~AllHex(last.arg)) )
  => /\ last.thrown \notin { "none", "abort" }
     /\ matrixOf[last.i] = last.pre

----------------------------------------------------------------------------
(* SpecMain: one run of the command-line program, src/mainprog.cpp, from     *)
(* line 53 on: the arguments are parsed (infile outfile key nonce, with or   *)
(* without --hex-key, without --chacha20) and the cipher is instance 1.      *)
(* prog.pc names the statement main is at; prog.exit is "running" or how the *)
(* process ended; prog.cerr holds the diagnostics written so far;            *)
(* prog.cipher_ptr is "uninit" until new returns ("object"), and "null" or   *)
(* "wild" once the unassigned pointer has been read; prog.calls holds the    *)
(* member functions control has entered.                                     *)

\* exit(status) after the diagnostic diag ("" for none), or the end of the
\* process by a signal
MainExit(p, status, diag) ==
  [ p EXCEPT !.pc = "done", !.exit = status,
             !.cerr = IF diag = "" THEN @ ELSE Append(@, diag) ]

\* the exceptions main has a handler for
MainCatches(thrown) == thrown \in { "length_error", "invalid_argument" }

\* how the process ends when a call ends as thrown and main has no handler: a
\* failed assert and an exception nobody catches (std::terminate) both abort
MainUncaught(p, thrown) ==
  MainExit(p, IF thrown = "crash" THEN "SIGSEGV" ELSE "SIGABRT",
           IF thrown = "abort" THEN "Assertion failed"
           ELSE IF thrown = "crash" THEN ""
           ELSE "terminate called after throwing an instance")

\* lines 53-62: the two files are opened
MainOpen ==
  /\ prog.pc = "open"
  /\ \E in_ok \in BOOLEAN, out_ok \in BOOLEAN :
       prog' = IF ~in_ok THEN MainExit(prog, "EXIT_FAILURE", "Could not open infile")
               ELSE IF ~out_ok THEN MainExit(prog, "EXIT_FAILURE", "Could not open outfile")
               ELSE [ prog EXCEPT !.pc = "construct" ]
  /\ UNCHANGED << NDEBUG, alive, constructed, matrixOf, streamPosOf, block, ctor, hist, own,
                  last, nops, tv >>

\* lines 64-77 once the constructor has ended as thrown: the assignment to
\* cipher_ptr is made only when new returns; both handlers write a diagnostic
\* and fall through to line 79
MainAfterNew(p, thrown) ==
  IF thrown = "none" THEN [ p EXCEPT !.pc = "check", !.cipher_ptr = "object" ]
  ELSE IF thrown = "length_error"
       THEN [ p EXCEPT !.pc = "check",
                       !.cerr = Append(@, IF p.is_hex_key
                                          THEN "invalid key size. has to be 32 or 64 hex chars"
                                          ELSE "invalid key size. has to be 16 or 32 chars") ]
       ELSE IF thrown = "invalid_argument"
            THEN [ p EXCEPT !.pc = "check",
                            !.cerr = Append(@, "all key chars have to be hex chars") ]
            ELSE MainUncaught(p, thrown)

\* lines 64-77: SnuffleStreamCipher* cipher_ptr; try { cipher_ptr = new Salsa20(...) } catch ...
MainConstruct ==
  /\ prog.pc = "construct"
  /\ \E stack \in Stacks :
       \E res \in { Salsa20String(prog.key_str, prog.is_hex_key, stack, NDEBUG) } :
         /\ alive' = (res.thrown = "none" \/ MainCatches(res.thrown))
         /\ constructed' = [constructed EXCEPT ![1] = (res.thrown = "none")]
         /\ matrixOf' = [matrixOf EXCEPT ![1] = IF res.thrown = "none" THEN res.matrix ELSE @]
         /\ ctor' = [ctor EXCEPT ![1] = [ kind |-> IF prog.is_hex_key THEN "hex" ELSE "ascii",
                                          key |-> prog.key_str,
                                          uninit |-> res.uninit, oob |-> res.oob ]]
         /\ prog' = MainAfterNew([prog EXCEPT !.ctor_thrown = res.thrown], res.thrown)
  /\ UNCHANGED << NDEBUG, streamPosOf, block, hist, own, last, nops, tv >>

\* lines 79-80: if (!cipher_ptr) exit(EXIT_FAILURE);  a pointer that was never
\* assigned holds whatever the stack held: null or not
MainCheck ==
  /\ prog.pc = "check"
  /\ \E value \in (IF prog.cipher_ptr = "object" THEN { "object" } ELSE { "null", "wild" }) :
       prog' = IF value = "null"
               THEN MainExit([prog EXCEPT !.cipher_ptr = value], "EXIT_FAILURE", "")
               ELSE [ prog EXCEPT !.pc = "setNonce", !.cipher_ptr = value ]
  /\ UNCHANGED << NDEBUG, alive, constructed, matrixOf, streamPosOf, block, ctor, hist, own,
                  last, nops, tv >>

\* lines 82-90 once setNonce has ended as thrown
MainAfterSetNonce(p, thrown) ==
  IF thrown = "none" THEN [ p EXCEPT !.pc = "encrypt" ]
  ELSE IF thrown = "length_error"
       THEN MainExit(p, "EXIT_FAILURE", "invalid nonce size. has to be 8 byte")
       ELSE IF thrown = "invalid_argument"
            THEN MainExit(p, "EXIT_FAILURE", "nonce hast to consist of only hex chars")
            ELSE MainUncaught(p, thrown)

\* lines 82-90: try { cipher_ptr->setNonce(nonce_hex_str); } catch ...
\* Through a pointer that names no object the call is undefined: the process
\* crashes, or the member function runs on the memory the pointer names (here
\* the members of instance 1, which no constructor has set).
MainSetNonce ==
  /\ prog.pc = "setNonce"
  /\ \E crash \in (IF prog.cipher_ptr = "wild" THEN BOOLEAN ELSE { FALSE }) :
       \E r \in { IF crash THEN [ thrown |-> "crash", matrix |-> matrixOf[1] ]
                  ELSE setNonceHex(matrixOf[1], prog.nonce_hex_str, NDEBUG) } :
         /\ alive' = (r.thrown = "none" \/ MainCatches(r.thrown))
         /\ matrixOf' = [matrixOf EXCEPT ![1] = r.matrix]
         /\ prog' = MainAfterSetNonce(
                      [prog EXCEPT !.nonce_thrown = r.thrown,
                                   !.calls = IF crash THEN @ ELSE @ \cup { "setNonce" }],
                      r.thrown)
  /\ UNCHANGED << NDEBUG, constructed, streamPosOf, block, ctor, hist, own, last, nops, tv >>

\* the ways lines 94-118 go: the three tests of the streams, or the read,
\* encryptBytes and the write; a call through a pointer that names no object
\* may crash
MainIo == { "ok", "filesize", "infile", "outfile" }

\* lines 94-123 when a test of the streams fails, or the call crashes
MainIoFails(io) ==
  /\ alive' = (io # "crash")
  /\ prog' = IF io = "crash" THEN MainUncaught(prog, "crash")
             ELSE MainExit(prog, "EXIT_FAILURE",
                           IF io = "filesize" THEN "Error getting filesize"
                           ELSE IF io = "infile" THEN "Error reading infile"
                           ELSE "Error writing outfile")
  /\ UNCHANGED << NDEBUG, constructed, matrixOf, streamPosOf, block, ctor, hist, own, last,
                  nops, tv >>

\* lines 115-123: infile.read, cipher_ptr->encryptBytes(input), outfile.write,
\* return 0;  e is what encryptBytes leaves
MainWrites(e) ==
  /\ matrixOf' = [matrixOf EXCEPT ![1] = e.matrix]
  /\ streamPosOf' = [streamPosOf EXCEPT ![1] = e.stream_pos]
  /\ block' = e.block
  /\ own' = [own EXCEPT ![1] = IF e.blocks # << >> THEN e.block ELSE @]
  /\ prog' = [ prog EXCEPT !.pc = "done", !.exit = "0", !.outfile = e.output,
                           !.calls = @ \cup { "encryptBytes" } ]
  /\ UNCHANGED << NDEBUG, alive, constructed, ctor, hist, last, nops, tv >>

MainEncrypt ==
  /\ prog.pc = "encrypt"
  /\ \E io \in MainIo \cup (IF prog.cipher_ptr = "wild" THEN { "crash" } ELSE { }) :
       IF io = "ok"
       THEN \E e \in { encryptBytes(matrixOf[1], streamPosOf[1], block, prog.input) } :
              MainWrites(e)
       ELSE MainIoFails(io)

\* the arguments key and nonce, and the bytes of infile
MainKeys ==
  { AsciiRun(65, 15), AsciiRun(65, 16), HexRun(1, 16), [ HexRun(1, 16) EXCEPT ![3] = 103 ],
    HexRun(1, 32) }

MainNonces == { HexRun(17, 8), HexRun(17, 8) \o << 49 >>, HexRun(17, 4), << 49, 49, 49 >> }

MainFiles == { Plain(0, 0), Plain(0, 3) }

InitMain ==
  /\ NDEBUG \in BOOLEAN
  /\ alive = TRUE
  /\ constructed = [ i \in Inst |-> FALSE ]
  /\ matrixOf = [ i \in Inst |-> ZeroMatrix ]
  /\ streamPosOf = [ i \in Inst |-> StreamPos0 ]
  /\ block = ZeroBlock
  /\ ctor = [ i \in Inst |-> NoCtor ]
  /\ hist = [ i \in Inst |-> NewHist(ZeroMatrix, StreamPos0, ZeroBlock, << >>, "none", << >>) ]
  /\ own = [ i \in Inst |-> ZeroBlock ]
  /\ last = NoCall
  /\ nops = 0
  /\ tv = NoTv
  /\ \E key_str \in MainKeys, is_hex_key \in BOOLEAN, nonce_hex_str \in MainNonces,
        input \in MainFiles :
       prog = [ pc |-> "open", key_str |-> key_str, is_hex_key |-> is_hex_key,
                nonce_hex_str |-> nonce_hex_str, input |-> input,
                cipher_ptr |-> "uninit", exit |-> "running", cerr |-> << >>,
                outfile |-> << >>, ctor_thrown |-> "not_called",
                nonce_thrown |-> "not_called", calls |-> { } ]

NextMain ==
  \/ MainOpen
  \/ MainConstruct
  \/ MainCheck
  \/ MainSetNonce
  \/ MainEncrypt

SpecMain == InitMain /\ [][NextMain]_vars

\* C11: in a run where the constructor or setNonce did not return, the
\* process never ends with status 0 and has written a diagnostic when it has
\* ended, setNonce is not entered unless the cipher was constructed,
\* encryptBytes is not entered and nothing is written to the output file.
C11_FailureStopsTheRun ==
  ( \/ prog.ctor_thrown \notin { "not_called", "none" }
    \/ prog.nonce_thrown \notin { "not_called", "none" } )
  => /\ prog.exit # "0"
     /\ prog.exit # "running" => prog.cerr # << >>
     /\ "setNonce" \in prog.calls => constructed[1]
     /\ "encryptBytes" \notin prog.calls
     /\ prog.outfile = << >>

====
